---- MODULE Spec2Model ----
(***************************************************************************)
(* Model of the two Lambda entry points of the layer deployment template:  *)
(*   source/create-lambda-layer.py  (builder:   lambda_handler,            *)
(*                                   create_layer_package,                 *)
(*                                   get_latest_package_version)           *)
(*   source/test-lambda-layer.py    (validator: lambda_handler)            *)
(* Strings the code edits (replace, join, splitext, f-strings) are         *)
(* sequences of one-character strings, so the edits are computed.          *)
(***************************************************************************)
EXTENDS Integers, Sequences, FiniteSets, TLC

VARIABLES
    handler,              \* which entry point is running: "none", "builder", "validator"
    pc,                   \* position inside the running handler
    event,                \* the event the handler was invoked with
    response_data,        \* the handler's response_data dict
    package_version,      \* builder local
    package_import_name,  \* builder / validator local
    zip_file,             \* builder local: path of the archive
    s3_key,               \* builder local
    exc,                  \* the exception in flight (NoExc when none)
    sends,                \* calls of cfnresponse.send made by this invocation
    ext,                  \* external steps of this invocation, in order
    fs,                   \* the scratch root /tmp of the builder's process
    fs0,                  \* /tmp as it was when the invocation started
    store,                \* objects written to the content store
    outcome,              \* "running", "returned", "uncaught"
    ret,                  \* the value the handler returned
    invocations,          \* builder invocations so far
    cfg,                  \* validator locals: targets, current_runtime, current_arch
    env,                  \* validator: the runtime it executes in
    test                  \* validator locals: package_status, installed_version

vars == <<handler, pc, event, response_data, package_version, package_import_name,
          zip_file, s3_key, exc, sends, ext, fs, fs0, store, outcome, ret,
          invocations, cfg, env, test>>

bvars == <<package_version, zip_file, s3_key, ext, fs, fs0, store, invocations>>
vvars == <<cfg, env, test>>

---------------------------------------------------------------------------
(* Bounds *)
MaxInvocations == 2

---------------------------------------------------------------------------
(* Strings *)
None == <<"<None>">>
Empty == <<>>

S_boto3 == <<"b","o","t","o","3">>
S_requests == <<"r","e","q","u","e","s","t","s">>
S_urllib3 == <<"u","r","l","l","i","b","3">>
S_powertools == <<"a","w","s","-","l","a","m","b","d","a","-","p","o","w","e","r","t","o","o","l","s">>
S_xray == <<"a","w","s","-","x","r","a","y","-","s","d","k">>
S_numpy == <<"n","u","m","p","y">>
S_python312 == <<"p","y","t","h","o","n","3",".","1","2">>
S_python313 == <<"p","y","t","h","o","n","3",".","1","3">>
S_arm64 == <<"a","r","m","6","4">>
S_x86_64 == <<"x","8","6","_","6","4">>
S_aarch64 == <<"a","a","r","c","h","6","4">>
S_bucket == <<"l","a","y","e","r","s">>
S_v1 == <<"1",".","0">>
S_v2 == <<"2",".","0">>
S_NA == <<"N","/","A">>
S_tmp == <<"/","t","m","p">>
S_zip == <<".","z","i","p">>
S_python == <<"p","y","t","h","o","n">>
S_NOT_INSTALLED == <<"N","O","T"," ","I","N","S","T","A","L","L","E","D">>
S_VersionNotFound == <<"V","e","r","s","i","o","n"," ","N","o","t"," ","F","o","u","n","d">>

\* The characters used, in code-point order (str comparison in sorted()).
Chars == <<"-", ".", "/", "0", "1", "2", "3", "4", "5", "6", "7", "8", "9", "_",
           "a", "b", "c", "d", "e", "f", "g", "h", "i", "j", "k", "l", "m", "n",
           "o", "p", "q", "r", "s", "t", "u", "v", "w", "x", "y", "z">>

Ord(c) == CHOOSE i \in 1..Len(Chars) : Chars[i] = c

RECURSIVE StrLess(_, _)
StrLess(a, b) ==
    IF b = <<>> THEN FALSE
    ELSE IF a = <<>> THEN TRUE
    ELSE IF Head(a) = Head(b) THEN StrLess(Tail(a), Tail(b))
    ELSE Ord(Head(a)) < Ord(Head(b))

RECURSIVE sorted(_)
sorted(S) ==
    IF S = {} THEN <<>>
    ELSE LET m == CHOOSE x \in S : \A y \in S \ {x} : StrLess(x, y)
         IN  <<m>> \o sorted(S \ {m})

\* str.replace(old, new) for a one-character old
RECURSIVE replace(_, _, _)
replace(s, old, new) ==
    IF s = <<>> THEN <<>>
    ELSE (IF Head(s) = old THEN new ELSE <<Head(s)>>) \o replace(Tail(s), old, new)

\* os.path.join(a, b) for a relative b
path_join(a, b) == a \o <<"/">> \o b

rfind(p, c) == IF \E i \in 1..Len(p) : p[i] = c
               THEN CHOOSE i \in 1..Len(p) : p[i] = c /\ \A j \in (i+1)..Len(p) : p[j] # c
               ELSE 0

\* os.path.splitext(p)[0]
splitext_root(p) ==
    LET sepIndex == rfind(p, "/")
        dotIndex == rfind(p, ".")
    IN  IF dotIndex > sepIndex /\ \E i \in (sepIndex+1)..(dotIndex-1) : p[i] # "."
        THEN SubSeq(p, 1, dotIndex - 1)
        ELSE p

\* str([x]) for a one-element list of str
str_list(x) == <<"[", "'">> \o x \o <<"'", "]">>

truthy(v) == v # None /\ v # Empty

---------------------------------------------------------------------------
(* Builder: constants and helpers *)
SUPPORTED_PACKAGES == {S_boto3, S_requests, S_urllib3, S_powertools, S_xray}

NoExc == [type |-> "none", text |-> "", detail |-> <<>>]
Raise(type, text, detail) == [type |-> type, text |-> text, detail |-> detail]

EmptyResult ==
    [S3Location |-> Empty, S3Bucket |-> Empty, S3Key |-> Empty,
     PackageName |-> Empty, PackageVersion |-> Empty, PackageImportName |-> Empty,
     CompatibleRuntimes |-> Empty, CompatibleArchitectures |-> Empty]

RequestTypes == {"Create", "Delete"}
BucketNames == {None, S_bucket}
PackageNames == {None, S_boto3, S_xray, S_numpy}
Runtimes == {Empty, S_python312, S_python313}
Architectures == {None, S_arm64, S_x86_64}
Versions == {S_v1, S_v2}

BuilderEvents ==
    [RequestType : RequestTypes, BucketName : BucketNames, PackageName : PackageNames,
     Runtime : Runtimes, Architecture : Architectures]

\* mutant: the request type compared in the wrong letter case
IsDelete_wrong_case(e) == e.RequestType = "DELETE"

IsDelete(e) == e.RequestType = "Delete"

\* the order of required_props
PropNames == <<"BucketName", "PackageName", "Runtime", "Architecture">>

missing_props(e) ==
    SelectSeq(PropNames, LAMBDA k : ~truthy(e[k]))

\* mutant: the allow-list check left out
ValidationError_no_allow_list(e) ==
    IF missing_props(e) # <<>>
    THEN Raise("ValueError", "Missing required properties: ", missing_props(e))
    ELSE NoExc

\* lines 146-154: the exception the validation raises, NoExc when it passes
ValidationError(e) ==
    IF missing_props(e) # <<>>
    THEN Raise("ValueError", "Missing required properties: ", missing_props(e))
    ELSE IF e.PackageName \notin SUPPORTED_PACKAGES
    THEN Raise("ValueError", "Package is not supported. Supported packages: ",
               sorted(SUPPORTED_PACKAGES))
    ELSE NoExc

import_name(package_name) == replace(package_name, "-", <<"_">>)

\* mutant: the dots of the runtime kept
layer_name_keeps_dots(runtime, architecture, package_name) ==
    runtime \o <<"-">> \o architecture \o <<"-">> \o package_name

\* mutant: the version made part of the name, as in the local archive's name
layer_name_with_version(runtime, architecture, package_name) ==
    replace(runtime, ".", <<>>) \o <<"-">> \o architecture \o <<"-">> \o package_name
        \o <<"-">> \o package_version

layer_name(runtime, architecture, package_name) ==
    replace(runtime, ".", <<>>) \o <<"-">> \o architecture \o <<"-">> \o package_name

zip_path(package_name, runtime_version, pkg_version) ==
    path_join(S_tmp, package_name \o <<"-">> \o runtime_version \o <<"-">>
                     \o pkg_version \o S_zip)

\* mutant: the version pin left out
requirement_unpinned(package_name, pkg_version) == package_name

\* the requirement handed to pip: f"{package_name}=={package_version}"
requirement(package_name, pkg_version) == package_name \o <<"=", "=">> \o pkg_version

\* "Lambda Layer creation failed: %s" % str(e)
error_msg(e) == [prefix |-> "Lambda Layer creation failed: ", cause |-> e]

NoReason == [prefix |-> "", cause |-> NoExc]

SendOutcomes == {"ok", "raise"}

\* one call of cfnresponse.send; it delivers the response unless it raises
Call(status, data, reason, o) ==
    [status |-> status, data |-> data, reason |-> reason, delivered |-> (o = "ok")]

SendError == Raise("Exception", "cfnresponse.send failed", <<>>)

CleanFs == [site_packages |-> FALSE, python |-> FALSE, files |-> {}]

---------------------------------------------------------------------------
Init ==
    /\ handler = "none"
    /\ pc = "idle"
    /\ event = [RequestType |-> "none"]
    /\ response_data = EmptyResult
    /\ package_version = None
    /\ package_import_name = None
    /\ zip_file = None
    /\ s3_key = None
    /\ exc = NoExc
    /\ sends = <<>>
    /\ ext = <<>>
    /\ fs = CleanFs
    /\ fs0 = CleanFs
    /\ store = {}
    /\ outcome = "returned"
    /\ ret = EmptyResult
    /\ invocations = 0
    /\ cfg = [set |-> FALSE]
    /\ env = [set |-> FALSE]
    /\ test = [set |-> FALSE]

---------------------------------------------------------------------------
(* Builder: lambda_handler of create-lambda-layer.py *)

\* the runtime invokes the handler with an event; lines 123-131
B_Invoke ==
    /\ pc \in {"idle", "done"}
    /\ invocations < MaxInvocations
    /\ \E e \in BuilderEvents :
        /\ event' = e
    /\ handler' = "builder"
    /\ pc' = "b_entry"
    /\ response_data' = EmptyResult
    /\ package_version' = None
    /\ package_import_name' = None
    /\ zip_file' = None
    /\ s3_key' = None
    /\ exc' = NoExc
    /\ sends' = <<>>
    /\ ext' = <<>>
    /\ fs0' = fs
    /\ outcome' = "running"
    /\ ret' = None
    /\ invocations' = invocations + 1
    /\ cfg' = [set |-> FALSE]
    /\ env' = [set |-> FALSE]
    /\ test' = [set |-> FALSE]
    /\ UNCHANGED <<fs, store>>

\* lines 133-136
B_Delete ==
    /\ handler = "builder" /\ pc = "b_entry"
    /\ IsDelete(event)
    /\ \E o \in SendOutcomes :
        /\ sends' = Append(sends, Call("SUCCESS", response_data, NoReason, o))
        /\ IF o = "ok"
           THEN /\ outcome' = "returned"
                /\ ret' = response_data
                /\ exc' = exc
           ELSE /\ outcome' = "uncaught"
                /\ ret' = ret
                /\ exc' = SendError
    /\ pc' = "done"
    /\ UNCHANGED <<handler, event, response_data, package_import_name>>
    /\ UNCHANGED bvars
    /\ UNCHANGED vvars

\* lines 138-154
B_Validate ==
    /\ handler = "builder" /\ pc = "b_entry"
    /\ ~IsDelete(event)
    /\ exc' = ValidationError(event)
    /\ pc' = IF ValidationError(event) = NoExc THEN "b_resolve" ELSE "b_except"
    /\ UNCHANGED <<handler, event, response_data, package_import_name, sends, outcome, ret>>
    /\ UNCHANGED bvars
    /\ UNCHANGED vvars

\* what the registry can answer: a status and the info.version of the body
RegistryReplies ==
    {[status |-> 200, version |-> v] : v \in Versions \cup {None, Empty}}
        \cup {[status |-> 404, version |-> None]}

\* lines 28-43: the version, or None when the function raises
get_latest_package_version(reply) ==
    IF reply.status # 200 THEN None
    ELSE IF ~truthy(reply.version) THEN None
    ELSE reply.version

\* lines 156-159
B_Resolve ==
    /\ handler = "builder" /\ pc = "b_resolve"
    /\ \E reply \in RegistryReplies :
        LET version == get_latest_package_version(reply)
        IN  IF version # None
            THEN /\ ext' = Append(ext, [step |-> "registry", ok |-> TRUE, arg |-> version])
                 /\ package_version' = version
                 /\ package_import_name' = import_name(event.PackageName)
                 /\ exc' = exc
                 /\ pc' = "clp_reset"
            ELSE /\ ext' = Append(ext, [step |-> "registry", ok |-> FALSE, arg |-> None])
                 /\ exc' = Raise("Exception", "Failed to get latest version for ",
                                 <<event.PackageName>>)
                 /\ UNCHANGED <<package_version, package_import_name>>
                 /\ pc' = "b_except"
    /\ UNCHANGED <<handler, event, response_data, zip_file, s3_key, sends, fs, fs0,
                   store, outcome, ret, invocations>>
    /\ UNCHANGED vvars

---------------------------------------------------------------------------
(* Builder: create_layer_package, lines 45-112 *)

\* the local zip_file of create_layer_package, line 75
ZipFile == zip_path(event.PackageName, event.Runtime, package_version)

\* what shutil.make_archive(zip_base, 'zip', ...) writes, lines 100-101
ArchiveFile == splitext_root(ZipFile) \o S_zip

Wrap(e) == Raise("Exception", "Layer package creation failed: ", <<e.text>>)

\* lines 63-83: argument check, then the reset of the staging area
CLP_Reset ==
    /\ handler = "builder" /\ pc = "clp_reset"
    /\ IF ~(truthy(event.PackageName) /\ truthy(package_version) /\ truthy(event.Runtime))
       THEN /\ exc' = Raise("ValueError",
                            "Missing required parameters for package installation.", <<>>)
            /\ pc' = "b_except"
            /\ fs' = fs
       ELSE /\ fs' = [site_packages |-> FALSE, python |-> FALSE,
                      files |-> fs.files \ {ZipFile}]
            /\ exc' = exc
            /\ pc' = "clp_install"
    /\ UNCHANGED <<handler, event, response_data, package_version, package_import_name,
                   zip_file, s3_key, sends, ext, fs0, store, outcome, ret, invocations>>
    /\ UNCHANGED vvars

\* lines 85-92: pip install --target site_packages_dir
CLP_Install ==
    /\ handler = "builder" /\ pc = "clp_install"
    /\ \E ok \in BOOLEAN, partial \in BOOLEAN :
        /\ ext' = Append(ext, [step |-> "install", ok |-> ok,
                               arg |-> requirement(event.PackageName, package_version)])
        /\ IF ok
           THEN /\ partial
                /\ fs' = [fs EXCEPT !.site_packages = TRUE]
                /\ exc' = exc
                /\ pc' = "clp_layout"
           ELSE /\ fs' = [fs EXCEPT !.site_packages = partial]
                /\ exc' = Raise("CalledProcessError", "pip install failed", <<>>)
                /\ pc' = "clp_finally"
    /\ UNCHANGED <<handler, event, response_data, package_version, package_import_name,
                   zip_file, s3_key, sends, fs0, store, outcome, ret, invocations>>
    /\ UNCHANGED vvars

\* lines 94-97: makedirs python/lib/<runtime>, move site-packages into it
CLP_Layout ==
    /\ handler = "builder" /\ pc = "clp_layout"
    /\ \E o \in {"ok", "makedirs", "move"}, partial \in BOOLEAN :
        CASE o = "ok" ->
               /\ partial
               /\ fs' = [fs EXCEPT !.python = TRUE, !.site_packages = FALSE]
               /\ exc' = exc
               /\ pc' = "clp_archive"
          [] o = "makedirs" ->
               /\ fs' = [fs EXCEPT !.python = partial]
               /\ exc' = Raise("OSError", "makedirs failed", <<>>)
               /\ pc' = "clp_finally"
          [] o = "move" ->
               /\ fs' = [fs EXCEPT !.python = TRUE, !.site_packages = partial]
               /\ exc' = Raise("OSError", "move failed", <<>>)
               /\ pc' = "clp_finally"
    /\ UNCHANGED <<handler, event, response_data, package_version, package_import_name,
                   zip_file, s3_key, sends, ext, fs0, store, outcome, ret, invocations>>
    /\ UNCHANGED vvars

\* lines 99-103: make_archive, then the check that the file exists
CLP_Archive ==
    /\ handler = "builder" /\ pc = "clp_archive"
    /\ \E o \in {"ok", "nofile", "raise"}, partial \in BOOLEAN :
        CASE o = "ok" ->
               /\ partial
               /\ fs' = [fs EXCEPT !.files = @ \cup {ArchiveFile}]
               /\ exc' = IF ZipFile \in fs'.files THEN NoExc
                         ELSE Raise("FileNotFoundError", "Failed to create ZIP file: ",
                                    <<ZipFile>>)
               /\ ext' = Append(ext, [step |-> "archive", ok |-> (ZipFile \in fs'.files),
                                      arg |-> ArchiveFile])
          [] o = "nofile" ->
               /\ partial
               /\ fs' = fs
               /\ exc' = IF ZipFile \in fs'.files THEN NoExc
                         ELSE Raise("FileNotFoundError", "Failed to create ZIP file: ",
                                    <<ZipFile>>)
               /\ ext' = Append(ext, [step |-> "archive", ok |-> (ZipFile \in fs'.files),
                                      arg |-> ArchiveFile])
          [] o = "raise" ->
               /\ fs' = IF partial THEN [fs EXCEPT !.files = @ \cup {ArchiveFile}] ELSE fs
               /\ exc' = Raise("OSError", "make_archive failed", <<>>)
               /\ ext' = Append(ext, [step |-> "archive", ok |-> FALSE,
                                      arg |-> ArchiveFile])
    /\ pc' = "clp_finally"
    /\ UNCHANGED <<handler, event, response_data, package_version, package_import_name,
                   zip_file, s3_key, sends, fs0, store, outcome, ret, invocations>>
    /\ UNCHANGED vvars

\* lines 105-112: the finally block, then return zip_file or the wrapped exception
CLP_Finally ==
    /\ handler = "builder" /\ pc = "clp_finally"
    /\ fs' = [fs EXCEPT !.site_packages = FALSE, !.python = FALSE]
    /\ IF exc = NoExc
       THEN /\ zip_file' = ZipFile
            /\ exc' = exc
            /\ pc' = "b_upload"
       ELSE /\ zip_file' = zip_file
            /\ exc' = Wrap(exc)
            /\ pc' = "b_except"
    /\ UNCHANGED <<handler, event, response_data, package_version, package_import_name,
                   s3_key, sends, ext, fs0, store, outcome, ret, invocations>>
    /\ UNCHANGED vvars

---------------------------------------------------------------------------
(* Builder: the rest of lambda_handler *)

\* lines 165-177: the key, the upload, and the finally that removes the archive
B_Upload ==
    /\ handler = "builder" /\ pc = "b_upload"
    /\ LET key == layer_name(event.Runtime, event.Architecture, event.PackageName) \o S_zip
       IN  /\ s3_key' = key
           /\ \E ok \in BOOLEAN :
               /\ ext' = Append(ext, [step |-> "upload", ok |-> ok, arg |-> key])
               /\ IF ok
                  THEN /\ store' = store \cup
                                     {[bucket |-> event.BucketName, key |-> key,
                                       runtime |-> event.Runtime,
                                       architecture |-> event.Architecture,
                                       name |-> event.PackageName,
                                       version |-> package_version]}
                       /\ exc' = exc
                       /\ pc' = "b_success"
                  ELSE /\ store' = store
                       /\ exc' = Raise("S3UploadFailedError", "upload failed", <<>>)
                       /\ pc' = "b_except"
    /\ fs' = [fs EXCEPT !.files = @ \ {zip_file}]
    /\ UNCHANGED <<handler, event, response_data, package_version, package_import_name,
                   zip_file, sends, fs0, outcome, ret, invocations>>
    /\ UNCHANGED vvars

\* lines 179-184
BuildResult ==
    [S3Location |-> <<"s", "3", ":", "/", "/">> \o event.BucketName \o <<"/">> \o s3_key,
     S3Bucket |-> event.BucketName, S3Key |-> s3_key,
     PackageName |-> event.PackageName, PackageVersion |-> package_version,
     PackageImportName |-> package_import_name,
     CompatibleRuntimes |-> str_list(event.Runtime),
     CompatibleArchitectures |-> str_list(event.Architecture)]

\* lines 179-188: fill response_data, send SUCCESS
B_Success ==
    /\ handler = "builder" /\ pc = "b_success"
    /\ response_data' = BuildResult
    /\ \E o \in SendOutcomes :
        /\ sends' = Append(sends, Call("SUCCESS", response_data', NoReason, o))
        /\ IF o = "ok"
           THEN /\ exc' = exc
                /\ pc' = "b_return"
           ELSE /\ exc' = SendError
                /\ pc' = "b_except"
    /\ UNCHANGED <<handler, event, package_import_name, outcome, ret>>
    /\ UNCHANGED bvars
    /\ UNCHANGED vvars

\* lines 189-192: the top-level except
B_Except ==
    /\ handler = "builder" /\ pc = "b_except"
    /\ \E o \in SendOutcomes :
        /\ sends' = Append(sends, Call("FAILED", response_data, error_msg(exc), o))
        /\ IF o = "ok"
           THEN /\ pc' = "b_return"
                /\ outcome' = outcome
                /\ exc' = exc
           ELSE /\ pc' = "done"
                /\ outcome' = "uncaught"
                /\ exc' = SendError
    /\ UNCHANGED <<handler, event, response_data, package_import_name, ret>>
    /\ UNCHANGED bvars
    /\ UNCHANGED vvars

\* lines 194-196
B_Return ==
    /\ handler = "builder" /\ pc = "b_return"
    /\ ret' = response_data
    /\ outcome' = "returned"
    /\ pc' = "done"
    /\ UNCHANGED <<handler, event, response_data, package_import_name, exc, sends>>
    /\ UNCHANGED bvars
    /\ UNCHANGED vvars

---------------------------------------------------------------------------
(* Validator: lambda_handler of test-lambda-layer.py *)

NoMessage == [kind |-> "empty", text |-> "", axes |-> <<>>]

\* line 21
EmptyOutcome ==
    [Status |-> "", Message |-> NoMessage, TestPackage |-> Empty,
     TestPackageVersion |-> Empty, TestRuntime |-> Empty, TestArchitecture |-> Empty]

ValidatorEvents ==
    [RequestType : RequestTypes,
     PackageName : {None, S_boto3},
     PackageImportName : {None, Empty, S_boto3},
     PackageVersion : {None, S_v1, S_VersionNotFound},
     Runtime : {None, S_python312},
     Architecture : {None, S_arm64, S_x86_64}]

\* the runtime the validator can find itself in: interpreter version, machine,
\* and the state of the module boto3 on its import path
Environments ==
    [version_info : {[major |-> <<"3">>, minor |-> <<"1", "2">>],
                     [major |-> <<"3">>, minor |-> <<"1", "3">>]},
     machine : {S_x86_64, S_aarch64},
     module : {[name |-> S_boto3, state |-> "absent", version |-> None],
               [name |-> S_boto3, state |-> "broken", version |-> None],
               [name |-> S_boto3, state |-> "ok", version |-> None],
               [name |-> S_boto3, state |-> "ok", version |-> S_v1],
               [name |-> S_boto3, state |-> "ok", version |-> S_v2]}]

\* dict.get(key, default)
get(v, default) == IF v = None THEN default ELSE v

\* line 40
canonical_arch(machine) == IF machine = S_aarch64 THEN S_arm64 ELSE machine

\* line 45: how importlib.import_module(name) ends in environment e
import_module(name, e) ==
    IF name = Empty THEN "ValueError"
    ELSE IF name # e.module.name \/ e.module.state = "absent" THEN "ImportError"
    ELSE IF e.module.state = "broken" THEN "RuntimeError"
    ELSE "loaded"

\* mutant: a bare except Exception around the load
caught_by_any_except(result) == result # "loaded"

\* lines 43-50: which results of the load the inner except clause catches
caught_by_import_except(result) == result = "ImportError"

\* lines 53-58
overall_status(status, installed, c) ==
    IF /\ status = "INSTALLED"
       /\ installed = c.target_version
       /\ c.current_runtime = c.target_runtime
       /\ c.current_arch = c.target_architecture
    THEN "SUCCESS" ELSE "FAILED"

\* lines 61-66
test_message(status, installed, c) ==
    [kind |-> "diagnostic", text |-> "",
     axes |-> << <<"Installation", c.package_name, status>>,
                 <<"Version", c.target_version, installed>>,
                 <<"Runtime", c.target_runtime, c.current_runtime>>,
                 <<"Architecture", c.target_architecture, c.current_arch>> >>]

\* line 72: str(e)
error_message(e) == [kind |-> "error", text |-> e.text, axes |-> <<>>]

\* the two functions run in separate processes that share no state, so the
\* validator's invocations are explored from the builder's initial state only
V_Invoke ==
    /\ pc \in {"idle", "done"}
    /\ invocations = 0
    /\ \E e \in ValidatorEvents : event' = e
    /\ handler' = "validator"
    /\ pc' = "v_entry"
    /\ response_data' = EmptyOutcome
    /\ package_import_name' = None
    /\ exc' = NoExc
    /\ sends' = <<>>
    /\ outcome' = "running"
    /\ ret' = None
    /\ cfg' = [set |-> FALSE]
    /\ env' = [set |-> FALSE]
    /\ test' = [set |-> FALSE]
    /\ UNCHANGED bvars

\* lines 23-26
V_Delete ==
    /\ handler = "validator" /\ pc = "v_entry"
    /\ IsDelete(event)
    /\ \E o \in SendOutcomes :
        /\ sends' = Append(sends, Call("SUCCESS", response_data, NoReason, o))
        /\ IF o = "ok"
           THEN /\ outcome' = "returned"
                /\ ret' = response_data
                /\ exc' = exc
           ELSE /\ outcome' = "uncaught"
                /\ ret' = ret
                /\ exc' = SendError
    /\ pc' = "done"
    /\ UNCHANGED <<handler, event, response_data, package_import_name>>
    /\ UNCHANGED bvars
    /\ UNCHANGED vvars

\* lines 28-40: the targets, then the current runtime and architecture
V_Config ==
    /\ handler = "validator" /\ pc = "v_entry"
    /\ ~IsDelete(event)
    /\ \E e \in Environments :
        /\ env' = [set |-> TRUE, version_info |-> e.version_info,
                   machine |-> e.machine, module |-> e.module]
        /\ cfg' = [set |-> TRUE,
                   package_name |-> get(event.PackageName, S_NA),
                   target_version |-> get(event.PackageVersion, S_NA),
                   target_runtime |-> get(event.Runtime, S_NA),
                   target_architecture |-> get(event.Architecture, S_NA),
                   current_runtime |-> S_python \o e.version_info.major \o <<".">>
                                           \o e.version_info.minor,
                   current_arch |-> canonical_arch(e.machine)]
    /\ package_import_name' = get(event.PackageImportName, S_NA)
    /\ pc' = "v_import"
    /\ UNCHANGED <<handler, event, response_data, exc, sends, outcome, ret, test>>
    /\ UNCHANGED bvars

\* lines 42-50
V_Import ==
    /\ handler = "validator" /\ pc = "v_import"
    /\ LET result == import_module(package_import_name, env)
       IN  IF result = "loaded"
           THEN /\ test' = [set |-> TRUE, load |-> result,
                            package_status |-> "INSTALLED",
                            installed_version |-> get(env.module.version, S_VersionNotFound)]
                /\ exc' = exc
                /\ pc' = "v_verdict"
           ELSE IF caught_by_import_except(result)
           THEN /\ test' = [set |-> TRUE, load |-> result,
                            package_status |-> "NOT INSTALLED",
                            installed_version |-> S_NOT_INSTALLED]
                /\ exc' = exc
                /\ pc' = "v_verdict"
           ELSE /\ test' = [set |-> TRUE, load |-> result,
                            package_status |-> "", installed_version |-> None]
                /\ exc' = Raise(result, "import failed", <<package_import_name>>)
                /\ pc' = "v_except"
    /\ UNCHANGED <<handler, event, response_data, package_import_name, sends, outcome,
                   ret, cfg, env>>
    /\ UNCHANGED bvars

\* lines 52-70
V_Verdict ==
    /\ handler = "validator" /\ pc = "v_verdict"
    /\ LET status == overall_status(test.package_status, test.installed_version, cfg)
       IN  /\ response_data' =
                 [response_data EXCEPT
                    !.Status = status,
                    !.Message = test_message(test.package_status,
                                             test.installed_version, cfg)]
           /\ \E o \in SendOutcomes :
               /\ sends' = Append(sends, Call(status, response_data', NoReason, o))
               /\ IF o = "ok"
                  THEN /\ exc' = exc
                       /\ pc' = "v_return"
                  ELSE /\ exc' = SendError
                       /\ pc' = "v_except"
    /\ UNCHANGED <<handler, event, package_import_name, outcome, ret>>
    /\ UNCHANGED bvars
    /\ UNCHANGED vvars

\* lines 71-75
V_Except ==
    /\ handler = "validator" /\ pc = "v_except"
    /\ response_data' = [response_data EXCEPT !.Status = "FAILED",
                                              !.Message = error_message(exc)]
    /\ \E o \in SendOutcomes :
        /\ sends' = Append(sends, Call("FAILED", response_data',
                                       [prefix |-> "", cause |-> exc], o))
        /\ IF o = "ok"
           THEN /\ pc' = "v_return"
                /\ outcome' = outcome
                /\ exc' = exc
           ELSE /\ pc' = "done"
                /\ outcome' = "uncaught"
                /\ exc' = SendError
    /\ UNCHANGED <<handler, event, package_import_name, ret>>
    /\ UNCHANGED bvars
    /\ UNCHANGED vvars

\* lines 77-79
V_Return ==
    /\ handler = "validator" /\ pc = "v_return"
    /\ ret' = response_data
    /\ outcome' = "returned"
    /\ pc' = "done"
    /\ UNCHANGED <<handler, event, response_data, package_import_name, exc, sends>>
    /\ UNCHANGED bvars
    /\ UNCHANGED vvars

---------------------------------------------------------------------------
Next ==
    \/ B_Invoke
    \/ B_Delete
    \/ B_Validate
    \/ B_Resolve
    \/ CLP_Reset
    \/ CLP_Install
    \/ CLP_Layout
    \/ CLP_Archive
    \/ CLP_Finally
    \/ B_Upload
    \/ B_Success
    \/ B_Except
    \/ B_Return
    \/ V_Invoke
    \/ V_Delete
    \/ V_Config
    \/ V_Import
    \/ V_Verdict
    \/ V_Except
    \/ V_Return

Spec == Init /\ [][Next]_vars

---------------------------------------------------------------------------
(* Properties *)

Delivered == {i \in DOMAIN sends : sends[i].delivered}
Sent(status) == \E i \in DOMAIN sends : sends[i].status = status
RequiredPresent == \A k \in {"BucketName", "PackageName", "Runtime", "Architecture"} :
                       event[k] # None /\ event[k] # <<>>
NoDots(str) == SelectSeq(str, LAMBDA c : c # ".")
Hyphen == <<"-">>

\* C1 (as claimed): when a handler has ended, whatever raised on the way (the
\* signaling call included), the response was signaled exactly once.
C1_SignaledExactlyOnce ==
    pc = "done" => Cardinality(Delivered) = 1

\* C2 (as claimed): the builder's record has a non-empty field only after a
\* successful upload, and every FAILED signal, like the record returned with
\* it, carries the record with all eight fields empty.
C2_FailedIsEmpty ==
    handler = "builder" =>
        /\ response_data # EmptyResult =>
               \E i \in DOMAIN ext : ext[i].step = "upload" /\ ext[i].ok
        /\ \A i \in DOMAIN sends :
               sends[i].status = "FAILED" => sends[i].data = EmptyResult
        /\ (pc = "done" /\ outcome = "returned" /\ Sent("FAILED")) => ret = EmptyResult

\* C3 (as claimed): when the builder has ended a build attempt, neither
\* staging directory nor any archive file exists in the scratch root.
C3_ScratchRootClean ==
    (handler = "builder" /\ pc = "done" /\ event.RequestType # "Delete") =>
        /\ ~fs.site_packages
        /\ ~fs.python
        /\ fs.files = {}

\* C4: a non-delete builder event with the four required properties present
\* and a PackageName outside SUPPORTED_PACKAGES makes no registry query, no
\* install, no filesystem change and no upload, and ends with one signal,
\* FAILED, whose message lists every supported package.
C4_UnsupportedRejected ==
    (/\ handler = "builder"
     /\ event.RequestType # "Delete"
     /\ RequiredPresent
     /\ event.PackageName \notin SUPPORTED_PACKAGES) =>
        /\ ext = <<>>
        /\ fs = fs0
        /\ package_version = None /\ zip_file = None
        /\ pc = "done" =>
               /\ Len(sends) = 1
               /\ sends[1].status = "FAILED"
               /\ sends[1].data = EmptyResult
               /\ sends[1].reason.cause.type = "ValueError"
               /\ {sends[1].reason.cause.detail[i] :
                       i \in DOMAIN sends[1].reason.cause.detail} = SUPPORTED_PACKAGES

C4_Witness ==
    /\ handler = "builder" /\ pc = "done"
    /\ event.RequestType # "Delete"
    /\ RequiredPresent
    /\ event.PackageName = S_numpy
    /\ Len(sends) = 1 /\ sends[1].delivered
    /\ outcome = "returned"

C6_SuccessIffFourMatch ==
    (handler = "validator" /\ pc = "done" /\ event.RequestType # "Delete") =>
        (Sent("SUCCESS") <=>
            /\ event.PackageImportName = env.module.name
            /\ env.module.state = "ok"
            /\ env.module.version # None
            /\ env.module.version = event.PackageVersion
            /\ S_python \o env.version_info.major \o <<".">> \o env.version_info.minor
                   = event.Runtime
            /\ (IF env.machine = S_aarch64 THEN S_arm64 ELSE env.machine)
                   = event.Architecture)

\* C7 (as claimed): the upload key is the runtime without its dots, the
\* architecture, the name and ".zip" concatenated with nothing in between.
C7_KeyNoDelimiter ==
    (handler = "builder" /\ s3_key # None) =>
        s3_key = NoDots(event.Runtime) \o event.Architecture \o event.PackageName \o S_zip

\* C7 (amended): the upload key, which is also the reported S3Key, is the
\* runtime without its dots, a hyphen, the architecture, a hyphen, the name
\* and ".zip".
C7_KeyHyphenated ==
    (handler = "builder" /\ s3_key # None) =>
        LET key == NoDots(event.Runtime) \o Hyphen \o event.Architecture \o Hyphen
                       \o event.PackageName \o S_zip
        IN  /\ s3_key = key
            /\ \A i \in DOMAIN ext : ext[i].step = "upload" => ext[i].arg = key
            /\ \A i \in DOMAIN sends :
                   sends[i].status = "SUCCESS" => sends[i].data.S3Key = key

C7_Witness ==
    /\ handler = "builder" /\ pc = "done"
    /\ \E i \in DOMAIN sends : sends[i].status = "SUCCESS" /\ sends[i].delivered
    /\ \E i \in DOMAIN event.Runtime : event.Runtime[i] = "."
    /\ event.PackageName = S_xray

\* C8: objects written for the same bucket, runtime, architecture and name
\* have the same key, whatever version the registry returned, so that triple
\* never holds more than one key in the store; the key reported as S3Key is
\* the key of the upload.
C8_OneKeyPerTriple ==
    /\ \A a \in store : \A b \in store :
           (/\ a.bucket = b.bucket /\ a.runtime = b.runtime
            /\ a.architecture = b.architecture /\ a.name = b.name) => a.key = b.key
    /\ handler = "builder" =>
           \A i \in DOMAIN sends :
               (sends[i].status = "SUCCESS" /\ event.RequestType # "Delete") =>
                   \E w \in store :
                       /\ w.key = sends[i].data.S3Key
                       /\ w.bucket = sends[i].data.S3Bucket
                       /\ w.runtime = event.Runtime
                       /\ w.architecture = event.Architecture
                       /\ w.name = event.PackageName
                       /\ w.version = sends[i].data.PackageVersion

C8_Witness ==
    \E a \in store : \E b \in store :
        /\ a.bucket = b.bucket /\ a.runtime = b.runtime
        /\ a.architecture = b.architecture /\ a.name = b.name
        /\ a.version # b.version
        /\ a.key = b.key

\* C9 (as claimed): whenever the load of the module fails, the validator's
\* verdict is the normal one: FAILED with the four-axis message that shows
\* the installation as NOT INSTALLED.
C9_EveryLoadFailureMapped ==
    (handler = "validator" /\ pc = "done" /\ test.set /\ test.load # "loaded") =>
        /\ sends[1].status = "FAILED"
        /\ sends[1].data.Message.kind = "diagnostic"
        /\ Len(sends[1].data.Message.axes) = 4
        /\ sends[1].data.Message.axes[1][3] = "NOT INSTALLED"

\* C9 (amended): a load that fails with ImportError (the module is absent,
\* which covers a PackageImportName missing from the event) gives the normal
\* verdict, FAILED with the four-axis message showing NOT INSTALLED; a load
\* that fails with any other error reaches the top-level handler, whose
\* FAILED signal carries the bare error message.
C9_ImportErrorMapped ==
    (handler = "validator" /\ pc = "done" /\ test.set) =>
        /\ event.PackageImportName = None => test.load = "ImportError"
        /\ test.load = "ImportError" =>
               /\ sends[1].status = "FAILED"
               /\ sends[1].data.Message.kind = "diagnostic"
               /\ Len(sends[1].data.Message.axes) = 4
               /\ sends[1].data.Message.axes[1][3] = "NOT INSTALLED"
               /\ sends[1].data.Message.axes[2][3] = S_NOT_INSTALLED
        /\ test.load \notin {"loaded", "ImportError"} =>
               /\ sends[1].status = "FAILED"
               /\ sends[1].data.Message.kind = "error"
               /\ sends[1].data.Message.axes = <<>>

C9_Witness ==
    /\ handler = "validator" /\ pc = "done" /\ test.set
    /\ event.PackageImportName = None
    /\ test.load = "ImportError"
    /\ sends[1].delivered
    /\ ret = sends[1].data

\* C10: the builder's external steps are, in order, registry query, install,
\* archive, upload, each at most once and each only after the earlier ones
\* succeeded; when SUCCESS is signaled all four succeeded and the reported
\* PackageVersion is the version pip was pinned to and the version the
\* registry query returned.
C10_StepsInOrderAndPinned ==
    handler = "builder" =>
        LET order == <<"registry", "install", "archive", "upload">>
        IN  /\ Len(ext) <= 4
            /\ \A i \in DOMAIN ext : ext[i].step = order[i]
            /\ \A i \in DOMAIN ext : i < Len(ext) => ext[i].ok
            /\ \A i \in DOMAIN sends :
                   (sends[i].status = "SUCCESS" /\ event.RequestType # "Delete") =>
                       /\ Len(ext) = 4
                       /\ ext[4].ok
                       /\ sends[i].data.PackageVersion = ext[1].arg
                       /\ ext[2].arg = event.PackageName \o <<"=", "=">> \o ext[1].arg

C10_Witness ==
    /\ handler = "builder" /\ pc = "done"
    /\ \E i \in DOMAIN sends : sends[i].status = "SUCCESS" /\ sends[i].delivered
    /\ Len(ext) = 4
    /\ ext[1].arg = S_v2

====
